---- MODULE Spec2Model ----
(***************************************************************************)
(* Restaurant Reservation Assistant (src/server.py): the in-memory ledger  *)
(* `reservations`, the five tools that read and write it, and the date,    *)
(* time and id helpers they call.                                          *)
(*                                                                         *)
(* Representation.                                                         *)
(*   - A Python str that the code only compares or stores is a sequence of *)
(*     one-character strings (ids, customer names) so that upper(),        *)
(*     lower(), strip() and `in` are computed, not assumed.                *)
(*   - A date string is the record of its fields as written (separator and *)
(*     the three numbers, or month name, day, year); a datetime is the     *)
(*     tuple <<year, month, day>>, and strftime('%Y-%m-%d') of it is the   *)
(*     same tuple: zero-padded fixed-width fields compare as the tuple     *)
(*     does.                                                               *)
(*   - A time string is the record of its fields as written; a time is     *)
(*     <<hour, minute>> and strftime('%H:%M') of it is the same tuple.     *)
(*   - The dict `reservations` is the sequence of its (key, value) entries *)
(*     in insertion order, which is the order Python iterates it in.       *)
(*   - created_at (datetime.now()) is written once and read by nothing; it *)
(*     is left out of the records.                                         *)
(***************************************************************************)
EXTENDS Integers, Sequences, FiniteSets, TLC

VARIABLES
    reservations,   \* the ledger: sequence of [k |-> key, v |-> record]
    ret,            \* what the last tool call returned
    issued,         \* ids returned so far by successful book_table calls
    cancelled,      \* ids for which cancel_reservation has succeeded
    calls,          \* concurrent book_table calls: caller -> frame
    loop            \* a get_time_slots call in progress: its locals

vars == <<reservations, ret, issued, cancelled, calls, loop>>

----------------------------------------------------------------------------
\* Bounds of the model.

\* book_table is not called when it would grow the ledger beyond this size
MaxLedger == 2

\* number of concurrent callers of book_table
NumCallers == 2

\* the ledger size up to which bookings are made before a listing
MaxListed == 3

\* the while loop of get_time_slots is followed for this many iterations;
\* no configuration of the model whose loop ends needs more than 51
MaxSlots == 60

----------------------------------------------------------------------------
\* Configuration (src/server.py:13-24).

TABLES ==
    << [id |-> 1, capacity |-> 2, location |-> "Window"],
       [id |-> 2, capacity |-> 2, location |-> "Window"],
       [id |-> 3, capacity |-> 4, location |-> "Main Hall"],
       [id |-> 4, capacity |-> 4, location |-> "Main Hall"],
       [id |-> 5, capacity |-> 6, location |-> "Private"],
       [id |-> 6, capacity |-> 8, location |-> "Main Hall"] >>

OPENING_TIME == <<11, 0>>
CLOSING_TIME == <<21, 0>>
SLOT_DURATION == 30

----------------------------------------------------------------------------
\* Sequence helpers.

Last(s) == s[Len(s)]

\* time and date tuples compare field by field, as the objects do
TimeLT(a, b) == a[1] < b[1] \/ (a[1] = b[1] /\ a[2] < b[2])
TimeLE(a, b) == a = b \/ TimeLT(a, b)

----------------------------------------------------------------------------
\* Character strings (str.upper, str.lower, str.strip, `in`).

LowerLetters ==
    << "a","b","c","d","e","f","g","h","i","j","k","l","m",
       "n","o","p","q","r","s","t","u","v","w","x","y","z" >>

UpperLetters ==
    << "A","B","C","D","E","F","G","H","I","J","K","L","M",
       "N","O","P","Q","R","S","T","U","V","W","X","Y","Z" >>

Digits == << "0","1","2","3","4","5","6","7","8","9" >>

\* each lower-case letter's upper-case letter, and the reverse
UpperOf ==
    [c \in { LowerLetters[i] : i \in 1..26 } |->
        UpperLetters[CHOOSE i \in 1..26 : LowerLetters[i] = c]]

LowerOf ==
    [c \in { UpperLetters[i] : i \in 1..26 } |->
        LowerLetters[CHOOSE i \in 1..26 : UpperLetters[i] = c]]

UpperChar(c) == IF c \in DOMAIN UpperOf THEN UpperOf[c] ELSE c

LowerChar(c) == IF c \in DOMAIN LowerOf THEN LowerOf[c] ELSE c

Upper(s) == [i \in 1..Len(s) |-> UpperChar(s[i])]
Lower(s) == [i \in 1..Len(s) |-> LowerChar(s[i])]

RECURSIVE LStrip(_)
LStrip(s) == IF s # <<>> /\ Head(s) = " " THEN LStrip(Tail(s)) ELSE s

RECURSIVE RStrip(_)
RStrip(s) ==
    IF s # <<>> /\ Last(s) = " " THEN RStrip(SubSeq(s, 1, Len(s) - 1)) ELSE s

Strip(s) == RStrip(LStrip(s))

\* a in b, for strings
Contains(b, a) ==
    \E i \in 0..(Len(b) - Len(a)) : SubSeq(b, i + 1, i + Len(a)) = a

----------------------------------------------------------------------------
\* generate_reservation_id (src/server.py:29-32).

RECURSIVE Decimal(_)
\* str(n) for n >= 0
Decimal(n) ==
    IF n < 10 THEN << Digits[n + 1] >>
    ELSE Decimal(n \div 10) \o << Digits[(n % 10) + 1] >>

RECURSIVE ZeroPad(_, _)
\* the format spec 0<width>d
ZeroPad(s, width) == IF Len(s) >= width THEN s ELSE ZeroPad(<<"0">> \o s, width)

\* f"RES{count:04d}"
FormatId(count) == <<"R", "E", "S">> \o ZeroPad(Decimal(count), 4)

\* count = len(reservations) + 1 over the ledger R as it is when called
generate_reservation_id(R) == FormatId(Len(R) + 1)

----------------------------------------------------------------------------
\* parse_time (src/server.py:35-50).
\*
\* A time string is [h, m, colon, suffix, space, text]: the digits before and
\* after the colon (m = 0 and colon = FALSE when there is none), the suffix
\* as written ("", "am", "pm", "AM", "PM"), whether a space precedes the
\* suffix, and text = TRUE for a string with no digits at all ("noon").

\* datetime.strptime(s, '%I:%M%p').time() on the string in upper case
\* without spaces, `suffix` being its AM or PM
StrptimeIMp(s, suffix) ==
    IF s.colon /\ s.h \in 1..12 /\ s.m \in 0..59
    THEN [ok |-> TRUE,
          t |-> << (s.h % 12) + (IF suffix = <<"P","M">> THEN 12 ELSE 0), s.m >>]
    ELSE [ok |-> FALSE]

\* datetime.strptime(s, '%I%p').time()
StrptimeIp(s, suffix) ==
    IF ~s.colon /\ s.h \in 1..12
    THEN [ok |-> TRUE,
          t |-> << (s.h % 12) + (IF suffix = <<"P","M">> THEN 12 ELSE 0), 0 >>]
    ELSE [ok |-> FALSE]

\* datetime.strptime(s, '%H:%M').time()
StrptimeHM(s) ==
    IF s.h \in 0..23 /\ s.m \in 0..59
    THEN [ok |-> TRUE, t |-> <<s.h, s.m>>]
    ELSE [ok |-> FALSE]

\* [ok |-> TRUE, t |-> time] or [ok |-> FALSE] when a ValueError is raised
parse_time(time_str) ==
    LET suffix == Upper(time_str.suffix)
    IN  IF time_str.text THEN [ok |-> FALSE]
        ELSE IF suffix \in { <<"P","M">>, <<"A","M">> }
        THEN IF StrptimeIMp(time_str, suffix).ok
             THEN StrptimeIMp(time_str, suffix)
             ELSE StrptimeIp(time_str, suffix)
        ELSE IF time_str.colon
        THEN StrptimeHM(time_str)
        ELSE IF time_str.h \in 0..23
        THEN [ok |-> TRUE, t |-> <<time_str.h, 0>>]
        ELSE [ok |-> FALSE]

----------------------------------------------------------------------------
\* parse_date (src/server.py:53-73).
\*
\* A date string is [sep, a, b, c, abbr, comma]:
\*   sep = "-" or "/": the three numbers a, b, c around the separators;
\*   sep = " ": a month name (a = its number, 0 for a word that names no
\*   month; abbr = written as the three-letter abbreviation), the day b and
\*   the year c, with or without a comma after the day.
\* Years are written with four digits.

IsLeap(y) == (y % 4 = 0 /\ y % 100 # 0) \/ y % 400 = 0

DaysInMonth(y, m) ==
    IF m = 2 THEN (IF IsLeap(y) THEN 29 ELSE 28)
    ELSE IF m \in {4, 6, 9, 11} THEN 30
    ELSE 31

\* datetime(y, m, d) exists
ValidYMD(y, m, d) ==
    /\ y \in 1..9999
    /\ m \in 1..12
    /\ d >= 1
    /\ d <= DaysInMonth(y, m)

formats ==
    << "%Y-%m-%d", "%m/%d/%Y", "%d/%m/%Y",
       "%B %d, %Y", "%b %d, %Y", "%B %d %Y", "%b %d %Y" >>

\* the month name May is its own abbreviation
MatchesB(s) == ~s.abbr \/ s.a = 5
Matchesb(s) == s.abbr \/ s.a = 5

\* datetime.strptime(date_str, fmt): [ok |-> TRUE, dt |-> <<y, m, d>>] or
\* [ok |-> FALSE] for ValueError
Strptime(s, fmt) ==
    LET date(y, m, d) ==
            IF ValidYMD(y, m, d) THEN [ok |-> TRUE, dt |-> <<y, m, d>>]
            ELSE [ok |-> FALSE]
        no == [ok |-> FALSE]
    IN  CASE fmt = "%Y-%m-%d" -> IF s.sep = "-" THEN date(s.a, s.b, s.c) ELSE no
          [] fmt = "%m/%d/%Y" -> IF s.sep = "/" THEN date(s.c, s.a, s.b) ELSE no
          [] fmt = "%d/%m/%Y" -> IF s.sep = "/" THEN date(s.c, s.b, s.a) ELSE no
          [] fmt = "%B %d, %Y" ->
                IF s.sep = " " /\ s.comma /\ MatchesB(s) THEN date(s.c, s.a, s.b) ELSE no
          [] fmt = "%b %d, %Y" ->
                IF s.sep = " " /\ s.comma /\ Matchesb(s) THEN date(s.c, s.a, s.b) ELSE no
          [] fmt = "%B %d %Y" ->
                IF s.sep = " " /\ ~s.comma /\ MatchesB(s) THEN date(s.c, s.a, s.b) ELSE no
          [] fmt = "%b %d %Y" ->
                IF s.sep = " " /\ ~s.comma /\ Matchesb(s) THEN date(s.c, s.a, s.b) ELSE no

RECURSIVE TryFormats(_, _)
\* the for loop over formats, from index i on
TryFormats(s, i) ==
    IF i > Len(formats) THEN [ok |-> FALSE]
    ELSE LET parsed == Strptime(s, formats[i])
         IN  IF parsed.ok THEN parsed ELSE TryFormats(s, i + 1)

parse_date(date_str) == TryFormats(date_str, 1)

----------------------------------------------------------------------------
\* Slot grid (src/server.py:76-96).

\* opening <= check_time < closing
WithinHours(check_time, opening, closing) ==
    TimeLE(opening, check_time) /\ TimeLT(check_time, closing)

\* is_within_hours with the closing time included
is_within_hours_Inclusive(check_time) ==
    TimeLE(OPENING_TIME, check_time) /\ TimeLE(check_time, CLOSING_TIME)

is_within_hours(check_time) == WithinHours(check_time, OPENING_TIME, CLOSING_TIME)

is_valid_timeslot(check_time) == check_time[2] \in {0, 30}

\* current.time() for a datetime `cur` minutes after today's midnight
TimeOf(cur) == << (cur \div 60) % 24, cur % 60 >>

RECURSIVE SlotsFrom(_, _, _)
\* the while loop of get_time_slots with `current` at `cur`
SlotsFrom(cur, closing, dur) ==
    IF TimeLT(TimeOf(cur), closing)
    THEN <<TimeOf(cur)>> \o SlotsFrom(cur + dur, closing, dur)
    ELSE <<>>

get_time_slots ==
    SlotsFrom(OPENING_TIME[1] * 60 + OPENING_TIME[2], CLOSING_TIME, SLOT_DURATION)

----------------------------------------------------------------------------
\* find_available_tables (src/server.py:99-116), over the ledger R.

\* find_available_tables with is_available never cleared
find_available_tables_NoScan(R, date, req_time, party_size) ==
    SelectSeq(TABLES, LAMBDA t : t.capacity >= party_size)

\* find_available_tables without the capacity filter
find_available_tables_AnyCapacity(R, date, req_time, party_size) ==
    LET is_available(table) ==
            ~ \E i \in 1..Len(R) :
                /\ R[i].v.date = date
                /\ R[i].v.table_id = table.id
                /\ R[i].v.time = req_time
    IN  SelectSeq(TABLES, is_available)

\* find_available_tables without the comparison of dates
find_available_tables_AnyDate(R, date, req_time, party_size) ==
    LET suitable_tables == SelectSeq(TABLES, LAMBDA t : t.capacity >= party_size)
        is_available(table) ==
            ~ \E i \in 1..Len(R) :
                /\ R[i].v.table_id = table.id
                /\ R[i].v.time = req_time
    IN  SelectSeq(suitable_tables, is_available)

find_available_tables(R, date, req_time, party_size) ==
    LET suitable_tables == SelectSeq(TABLES, LAMBDA t : t.capacity >= party_size)
        is_available(table) ==
            ~ \E i \in 1..Len(R) :
                /\ R[i].v.date = date
                /\ R[i].v.table_id = table.id
                /\ R[i].v.time = req_time
    IN  SelectSeq(suitable_tables, is_available)

----------------------------------------------------------------------------
\* The dict `reservations` as a sequence of entries in insertion order.

HasKey(R, key) == \E i \in 1..Len(R) : R[i].k = key

\* R[key]
Lookup(R, key) == R[CHOOSE i \in 1..Len(R) : R[i].k = key].v

\* R[key] = value: an existing key keeps its place, a new one goes last
DictSet(R, key, value) ==
    IF HasKey(R, key)
    THEN [i \in 1..Len(R) |-> IF R[i].k = key THEN [k |-> key, v |-> value] ELSE R[i]]
    ELSE Append(R, [k |-> key, v |-> value])

\* del R[key]
DictDel(R, key) == SelectSeq(R, LAMBDA e : e.k # key)

\* R.values()
Values(R) == [i \in 1..Len(R) |-> R[i].v]

TableById(id) == TABLES[CHOOSE i \in 1..Len(TABLES) : TABLES[i].id = id]

----------------------------------------------------------------------------
\* The tools. Each is a function of the ledger R and the arguments and
\* yields the returned message (ret) and, for the two that write, the ledger
\* afterwards.

\* check_availability (src/server.py:120-155)
check_availability(R, date, time_str, party_size) ==
    LET parsed_date == parse_date(date)
        parsed_time == parse_time(time_str)
        op == "check_availability"
    IN  IF ~parsed_date.ok \/ ~parsed_time.ok THEN [op |-> op, kind |-> "error"]
        ELSE IF ~is_valid_timeslot(parsed_time.t) THEN [op |-> op, kind |-> "invalid_slot"]
        ELSE IF ~is_within_hours(parsed_time.t) THEN [op |-> op, kind |-> "closed"]
        ELSE IF party_size < 1 \/ party_size > 8 THEN [op |-> op, kind |-> "party_size"]
        ELSE LET available_tables ==
                     find_available_tables(R, parsed_date.dt, parsed_time.t, party_size)
             IN  [op |-> op,
                  kind |-> IF available_tables # <<>> THEN "available" ELSE "none",
                  party_size |-> party_size,
                  date |-> parsed_date.dt,
                  time |-> parsed_time.t,
                  tables |-> [i \in 1..Len(available_tables) |-> available_tables[i].id]]

\* table = available_tables[0] (src/server.py:194), with the largest table
\* taken instead
ChooseTable_Last(available_tables) == available_tables[Len(available_tables)]

\* table = available_tables[0] (src/server.py:194)
ChooseTable(available_tables) == available_tables[1]

\* book_table (src/server.py:159-231)
book_table(R, name, party_size, date, time_str, contact) ==
    LET parsed_date == parse_date(date)
        parsed_time == parse_time(time_str)
        fail(kind) == [ret |-> [op |-> "book_table", kind |-> kind], reservations |-> R]
    IN  IF ~parsed_date.ok \/ ~parsed_time.ok THEN fail("error")
        ELSE IF ~is_valid_timeslot(parsed_time.t) THEN fail("invalid_slot")
        ELSE IF ~is_within_hours(parsed_time.t) THEN fail("closed")
        ELSE IF party_size < 1 \/ party_size > 8 THEN fail("party_size")
        ELSE LET available_tables ==
                     find_available_tables(R, parsed_date.dt, parsed_time.t, party_size)
             IN  IF available_tables = <<>>
                 THEN [ret |-> [op |-> "book_table",
                                kind |-> "no_tables",
                                party_size |-> party_size,
                                date |-> parsed_date.dt,
                                time |-> parsed_time.t],
                       reservations |-> R]
                 ELSE LET table == ChooseTable(available_tables)
                          res_id == generate_reservation_id(R)
                          record ==
                              [id |-> res_id,
                               customer_name |-> name,
                               party_size |-> party_size,
                               date |-> parsed_date.dt,
                               time |-> parsed_time.t,
                               table_id |-> table.id,
                               table_location |-> table.location,
                               phone |-> contact.phone,
                               email |-> contact.email,
                               notes |-> contact.notes]
                      IN  [ret |-> [op |-> "book_table",
                                    kind |-> "confirmed",
                                    id |-> res_id,
                                    customer_name |-> name,
                                    party_size |-> party_size,
                                    date |-> parsed_date.dt,
                                    time |-> parsed_time.t,
                                    table_id |-> table.id],
                           reservations |-> DictSet(R, res_id, record)]

\* cancel_reservation removing the newest record when the id is not found
cancel_reservation_DropLast(R, reservation_id) ==
    LET id == Strip(Upper(reservation_id))
    IN  IF HasKey(R, id)
        THEN LET res == Lookup(R, id)
             IN  [ret |-> [op |-> "cancel_reservation",
                           kind |-> "cancelled",
                           id |-> id,
                           customer_name |-> res.customer_name,
                           date |-> res.date,
                           time |-> res.time,
                           party_size |-> res.party_size],
                  reservations |-> DictDel(R, id)]
        ELSE [ret |-> [op |-> "cancel_reservation", kind |-> "not_found", id |-> id],
              reservations |-> SubSeq(R, 1, Len(R) - 1)]

\* cancel_reservation without the del: the record stays in the ledger
cancel_reservation_Keep(R, reservation_id) ==
    LET id == Strip(Upper(reservation_id))
    IN  IF HasKey(R, id)
        THEN LET res == Lookup(R, id)
             IN  [ret |-> [op |-> "cancel_reservation",
                           kind |-> "cancelled",
                           id |-> id,
                           customer_name |-> res.customer_name,
                           date |-> res.date,
                           time |-> res.time,
                           party_size |-> res.party_size],
                  reservations |-> R]
        ELSE [ret |-> [op |-> "cancel_reservation", kind |-> "not_found", id |-> id],
              reservations |-> R]

\* cancel_reservation deleting by position: the entry and all after it go
cancel_reservation_Truncate(R, reservation_id) ==
    LET id == Strip(Upper(reservation_id))
    IN  IF HasKey(R, id)
        THEN LET res == Lookup(R, id)
             IN  [ret |-> [op |-> "cancel_reservation",
                           kind |-> "cancelled",
                           id |-> id,
                           customer_name |-> res.customer_name,
                           date |-> res.date,
                           time |-> res.time,
                           party_size |-> res.party_size],
                  reservations |->
                      SubSeq(R, 1, (CHOOSE i \in 1..Len(R) : R[i].k = id) - 1)]
        ELSE [ret |-> [op |-> "cancel_reservation", kind |-> "not_found", id |-> id],
              reservations |-> R]

\* cancel_reservation (src/server.py:235-262)
cancel_reservation(R, reservation_id) ==
    LET id == Strip(Upper(reservation_id))
    IN  IF HasKey(R, id)
        THEN LET res == Lookup(R, id)
             IN  [ret |-> [op |-> "cancel_reservation",
                           kind |-> "cancelled",
                           id |-> id,
                           customer_name |-> res.customer_name,
                           date |-> res.date,
                           time |-> res.time,
                           party_size |-> res.party_size],
                  reservations |-> DictDel(R, id)]
        ELSE [ret |-> [op |-> "cancel_reservation", kind |-> "not_found", id |-> id],
              reservations |-> R]

RECURSIVE InsertSorted(_, _)
\* r put into the sorted sequence s after every element whose key is <= its
\* own: sorted() is stable
InsertSorted(s, r) ==
    LET le(x, y) ==
            \/ x.date[1] < y.date[1]
            \/ x.date[1] = y.date[1] /\ x.date[2] < y.date[2]
            \/ x.date[1] = y.date[1] /\ x.date[2] = y.date[2] /\ x.date[3] < y.date[3]
            \/ x.date = y.date /\ TimeLE(x.time, y.time)
    IN  IF s = <<>> THEN <<r>>
        ELSE IF le(Last(s), r) THEN Append(s, r)
        ELSE Append(InsertSorted(SubSeq(s, 1, Len(s) - 1), r), Last(s))

RECURSIVE Sorted(_)
\* sorted(filtered, key=lambda x: (x['date'], x['time']))
Sorted(s) ==
    IF s = <<>> THEN <<>>
    ELSE InsertSorted(Sorted(SubSeq(s, 1, Len(s) - 1)), Last(s))

\* view_reservations (src/server.py:266-315); date and customer_name are
\* [given |-> FALSE] for None, else [given |-> TRUE, s |-> the string]
view_reservations(R, date, customer_name) ==
    LET op == "view_reservations"
        use_date == date.given /\ ~(date.s.sep = "")
        use_name == customer_name.given /\ customer_name.s # <<>>
        by_date ==
            IF use_date
            THEN SelectSeq(Values(R), LAMBDA r : r.date = parse_date(date.s).dt)
            ELSE Values(R)
        filtered ==
            IF use_name
            THEN SelectSeq(by_date,
                     LAMBDA r : Contains(Lower(r.customer_name), Lower(customer_name.s)))
            ELSE by_date
    IN  IF R = <<>> THEN [op |-> op, kind |-> "empty"]
        ELSE IF use_date /\ ~parse_date(date.s).ok THEN [op |-> op, kind |-> "error"]
        ELSE IF filtered = <<>> THEN [op |-> op, kind |-> "no_match"]
        ELSE [op |-> op, kind |-> "found", list |-> Sorted(filtered)]

\* time.strftime('%I:%M %p'): the time string "HH:MM AM" or "HH:MM PM" on
\* the 12-hour clock
StrftimeIMp(t) ==
    [h |-> IF t[1] % 12 = 0 THEN 12 ELSE t[1] % 12,
     m |-> t[2],
     colon |-> TRUE,
     suffix |-> IF t[1] < 12 THEN <<"A","M">> ELSE <<"P","M">>,
     space |-> TRUE,
     text |-> FALSE]

\* get_available_timeslots appending every slot, free or not
get_available_timeslots_All(R, date, party_size) ==
    LET op == "get_available_timeslots"
        parsed_date == parse_date(date)
    IN  IF ~parsed_date.ok THEN [op |-> op, kind |-> "error"]
        ELSE IF party_size < 1 \/ party_size > 8 THEN [op |-> op, kind |-> "party_size"]
        ELSE [op |-> op,
              kind |-> "slots",
              party_size |-> party_size,
              date |-> parsed_date.dt,
              slots |-> [i \in 1..Len(get_time_slots) |-> StrftimeIMp(get_time_slots[i])]]

\* get_available_timeslots (src/server.py:319-356)
get_available_timeslots(R, date, party_size) ==
    LET op == "get_available_timeslots"
        parsed_date == parse_date(date)
    IN  IF ~parsed_date.ok THEN [op |-> op, kind |-> "error"]
        ELSE IF party_size < 1 \/ party_size > 8 THEN [op |-> op, kind |-> "party_size"]
        ELSE LET free ==
                     SelectSeq(get_time_slots,
                         LAMBDA slot :
                             find_available_tables(R, parsed_date.dt, slot, party_size) # <<>>)
                 available_slots == [i \in 1..Len(free) |-> StrftimeIMp(free[i])]
             IN  [op |-> op,
                  kind |-> IF available_slots # <<>> THEN "slots" ELSE "full",
                  party_size |-> party_size,
                  date |-> parsed_date.dt,
                  slots |-> available_slots]

----------------------------------------------------------------------------
\* Inputs of the tools.

Tm(h, m, colon, suffix, space) ==
    [h |-> h, m |-> m, colon |-> colon, suffix |-> suffix, space |-> space,
     text |-> FALSE]

Dt(sep, a, b, c) == [sep |-> sep, a |-> a, b |-> b, c |-> c, abbr |-> FALSE, comma |-> TRUE]

\* "11:00" and "7pm"
GoodTimes == { Tm(11, 0, TRUE, <<>>, FALSE), Tm(7, 0, FALSE, <<"p","m">>, FALSE) }

\* "7:15 PM" (off the grid), "21:00" (closing time), "noon" (no format)
BadTimes ==
    { Tm(7, 15, TRUE, <<"P","M">>, TRUE),
      Tm(21, 0, TRUE, <<>>, FALSE),
      [h |-> 0, m |-> 0, colon |-> FALSE, suffix |-> <<>>, space |-> FALSE, text |-> TRUE] }

\* "2025-12-15" and "December 16, 2025"
GoodDates == { Dt("-", 2025, 12, 15), Dt(" ", 12, 16, 2025) }

\* "13/13/2025"
BadDates == { Dt("/", 13, 13, 2025) }

GoodSizes == {2, 8}
BadSizes == {0, 9}

\* "Ann" and the empty string
Names == { <<"A","n","n">>, <<>> }

\* the times and names bookings are made with
BookTimes == { Tm(7, 0, FALSE, <<"p","m">>, FALSE) }
BookNames == { <<"A","n","n">> }

Contacts ==
    { [phone |-> "", email |-> "", notes |-> ""] }

\* book_table arguments: combinations of valid values, and each further
\* value of one argument with valid values of the others
BookArgs ==
    LET good == [name : BookNames, party_size : GoodSizes, date : GoodDates,
                 time_str : BookTimes, contact : Contacts]
        base == CHOOSE a \in good : TRUE
    IN  good
        \cup { [base EXCEPT !.name = n] : n \in Names }
        \cup { [base EXCEPT !.time_str = t] : t \in GoodTimes }
        \cup { [base EXCEPT !.party_size = n] : n \in BadSizes }
        \cup { [base EXCEPT !.date = d] : d \in BadDates }
        \cup { [base EXCEPT !.time_str = t] : t \in BadTimes }

\* check_availability arguments
CheckArgs ==
    LET good == [party_size : GoodSizes, date : GoodDates, time_str : GoodTimes]
        base == CHOOSE a \in good : TRUE
    IN  good
        \cup { [base EXCEPT !.party_size = n] : n \in BadSizes }
        \cup { [base EXCEPT !.date = d] : d \in BadDates }
        \cup { [base EXCEPT !.time_str = t] : t \in BadTimes }

\* cancel_reservation arguments: every id that can have been issued,
\* " res0001 " and "RES1"
CancelArgs ==
    { FormatId(n) : n \in 1..MaxLedger }
    \cup { <<" ", "r", "e", "s", "0", "0", "0", "1", " ">>,
           <<"R", "E", "S", "1">> }

None == [given |-> FALSE]
Some(x) == [given |-> TRUE, s |-> x]

\* view_reservations arguments: no filter, a date, an unparseable date,
\* the name "an"
ViewArgs ==
    { [date |-> None, customer_name |-> None],
      [date |-> Some(Dt("-", 2025, 12, 15)), customer_name |-> None],
      [date |-> Some(Dt("/", 13, 13, 2025)), customer_name |-> None],
      [date |-> None, customer_name |-> Some(<<"a","n">>)] }

\* get_available_timeslots arguments
SlotArgs ==
    [date : GoodDates, party_size : GoodSizes]
    \cup { [date |-> d, party_size |-> 2] : d \in BadDates }
    \cup { [date |-> Dt("-", 2025, 12, 15), party_size |-> n] : n \in BadSizes }

Callers == 1..NumCallers

----------------------------------------------------------------------------
\* The server with every tool call executed as one step.

Init ==
    /\ reservations = <<>>
    /\ ret = [op |-> "none", kind |-> "none"]
    /\ issued = {}
    /\ cancelled = {}
    /\ calls = [p \in Callers |-> [pc |-> "idle"]]
    /\ loop = [pc |-> "idle"]

\* the call book_table(**a), when the ledger stays within `max` records
BookWithin(a, max) ==
    LET out == book_table(reservations, a.name, a.party_size, a.date, a.time_str, a.contact)
    IN  /\ Len(out.reservations) <= max
        /\ reservations' = out.reservations
        /\ ret' = out.ret

Book(a) == BookWithin(a, MaxLedger)

\* the call cancel_reservation(reservation_id)
Cancel(reservation_id) ==
    LET out == cancel_reservation(reservations, reservation_id)
    IN  /\ reservations' = out.reservations
        /\ ret' = out.ret

BookTable(a) ==
    /\ Book(a)
    /\ UNCHANGED <<issued, cancelled, calls, loop>>

CancelReservation(reservation_id) ==
    /\ Cancel(reservation_id)
    /\ UNCHANGED <<issued, cancelled, calls, loop>>

\* check_availability emptying the ledger as it answers
CheckAvailability_Clearing(a) ==
    /\ ret' = check_availability(reservations, a.date, a.time_str, a.party_size)
    /\ reservations' = <<>>
    /\ UNCHANGED <<issued, cancelled, calls, loop>>

CheckAvailability(a) ==
    /\ ret' = check_availability(reservations, a.date, a.time_str, a.party_size)
    /\ UNCHANGED <<reservations, issued, cancelled, calls, loop>>

ViewReservations(a) ==
    /\ ret' = view_reservations(reservations, a.date, a.customer_name)
    /\ UNCHANGED <<reservations, issued, cancelled, calls, loop>>

GetAvailableTimeslots(a) ==
    /\ ret' = get_available_timeslots(reservations, a.date, a.party_size)
    /\ UNCHANGED <<reservations, issued, cancelled, calls, loop>>

Next ==
    \/ \E a \in BookArgs : BookTable(a)
    \/ \E id \in CancelArgs : CancelReservation(id)
    \/ \E a \in CheckArgs : CheckAvailability(a)
    \/ \E a \in ViewArgs : ViewReservations(a)
    \/ \E a \in SlotArgs : GetAvailableTimeslots(a)

Spec == Init /\ [][Next]_vars

----------------------------------------------------------------------------
\* Bookings and cancellations with their history: `issued` collects the ids
\* that successful bookings returned and `cancelled` the ids that were
\* cancelled, as a caller keeping the confirmations would.

BookTableH(a) ==
    /\ Book(a)
    /\ issued' = IF ret'.kind = "confirmed" THEN issued \cup {ret'.id} ELSE issued
    /\ UNCHANGED <<cancelled, calls, loop>>

CancelReservationH(reservation_id) ==
    /\ Cancel(reservation_id)
    /\ cancelled' = IF ret'.kind = "cancelled" THEN cancelled \cup {ret'.id} ELSE cancelled
    /\ UNCHANGED <<issued, calls, loop>>

NextH ==
    \/ \E a \in BookArgs : BookTableH(a)
    \/ \E id \in CancelArgs : CancelReservationH(id)

SpecH == Init /\ [][NextH]_vars

----------------------------------------------------------------------------
\* Concurrent book_table calls. The server takes no lock, so the statements
\* of one call interleave with those of another: each caller runs the
\* validation (lines 176-187), the availability scan (189-192), the id
\* generation (194-195) and the ledger write with the return (197-228) as
\* separate steps, each reading the ledger as it is when the step runs.

\* "Bo"
ConcNames == BookNames \cup { <<"B","o">> }

ConcArgs ==
    LET good == [name : ConcNames, party_size : GoodSizes, date : {Dt("-", 2025, 12, 15)},
                 time_str : BookTimes, contact : Contacts]
        base == CHOOSE a \in good : TRUE
    IN  good \cup { [base EXCEPT !.party_size = n] : n \in BadSizes }

\* lines 176-187: parse and validate the arguments
Validate(p, a) ==
    LET parsed_date == parse_date(a.date)
        parsed_time == parse_time(a.time_str)
        fail(kind) ==
            [pc |-> "done", args |-> a, ret |-> [op |-> "book_table", kind |-> kind]]
    IN  /\ calls[p].pc = "idle"
        /\ calls' = [calls EXCEPT ![p] =
               IF ~parsed_date.ok \/ ~parsed_time.ok THEN fail("error")
               ELSE IF ~is_valid_timeslot(parsed_time.t) THEN fail("invalid_slot")
               ELSE IF ~is_within_hours(parsed_time.t) THEN fail("closed")
               ELSE IF a.party_size < 1 \/ a.party_size > 8 THEN fail("party_size")
               ELSE [pc |-> "scan", args |-> a,
                     parsed_date |-> parsed_date.dt, parsed_time |-> parsed_time.t]]
        /\ UNCHANGED <<reservations, ret, issued, cancelled, loop>>

\* lines 189-192: the availability scan
Scan(p) ==
    LET f == calls[p]
        available_tables ==
            find_available_tables(reservations, f.parsed_date, f.parsed_time,
                                  f.args.party_size)
    IN  /\ f.pc = "scan"
        /\ calls' = [calls EXCEPT ![p] =
               IF available_tables = <<>>
               THEN [pc |-> "done", args |-> f.args,
                     ret |-> [op |-> "book_table",
                              kind |-> "no_tables",
                              party_size |-> f.args.party_size,
                              date |-> f.parsed_date,
                              time |-> f.parsed_time]]
               ELSE [f EXCEPT !.pc = "pick"] @@ [available_tables |-> available_tables]]
        /\ UNCHANGED <<reservations, ret, issued, cancelled, loop>>

\* lines 194-195: the table and the id
Pick(p) ==
    LET f == calls[p]
    IN  /\ f.pc = "pick"
        /\ calls' = [calls EXCEPT ![p] =
               [f EXCEPT !.pc = "write"]
               @@ [table |-> ChooseTable(f.available_tables),
                   res_id |-> generate_reservation_id(reservations)]]
        /\ UNCHANGED <<reservations, ret, issued, cancelled, loop>>

\* lines 197-228: the ledger write and the confirmation
Write(p) ==
    LET f == calls[p]
        record ==
            [id |-> f.res_id,
             customer_name |-> f.args.name,
             party_size |-> f.args.party_size,
             date |-> f.parsed_date,
             time |-> f.parsed_time,
             table_id |-> f.table.id,
             table_location |-> f.table.location,
             phone |-> f.args.contact.phone,
             email |-> f.args.contact.email,
             notes |-> f.args.contact.notes]
    IN  /\ f.pc = "write"
        /\ reservations' = DictSet(reservations, f.res_id, record)
        /\ calls' = [calls EXCEPT ![p] =
               [pc |-> "done",
                args |-> f.args,
                ret |-> [op |-> "book_table",
                         kind |-> "confirmed",
                         id |-> f.res_id,
                         customer_name |-> f.args.name,
                         party_size |-> f.args.party_size,
                         date |-> f.parsed_date,
                         time |-> f.parsed_time,
                         table_id |-> f.table.id]]]
        /\ UNCHANGED <<ret, issued, cancelled, loop>>

NextConc ==
    \E p \in Callers :
        \/ \E a \in ConcArgs : Validate(p, a)
        \/ Scan(p)
        \/ Pick(p)
        \/ Write(p)

SpecConc == Init /\ [][NextConc]_vars

----------------------------------------------------------------------------
\* Bookings, cancellations and listings over a ledger of up to MaxListed
\* records, all bookings for parties of 2.

ListedBookArgs ==
    [name : BookNames, party_size : {2}, date : GoodDates, time_str : GoodTimes,
     contact : Contacts]

ListedCancelArgs == { FormatId(n) : n \in 1..MaxListed }

BookTableV(a) ==
    /\ BookWithin(a, MaxListed)
    /\ UNCHANGED <<issued, cancelled, calls, loop>>

NextV ==
    \/ \E a \in ListedBookArgs : BookTableV(a)
    \/ \E id \in ListedCancelArgs : CancelReservation(id)
    \/ \E a \in ViewArgs : ViewReservations(a)

SpecV == Init /\ [][NextV]_vars

----------------------------------------------------------------------------
\* get_time_slots (src/server.py:86-96) one loop iteration at a time, under
\* a configuration (OPENING_TIME, CLOSING_TIME, SLOT_DURATION) with the
\* opening time before the closing time. `loop` holds the configuration and
\* the locals `current` (minutes since today's midnight) and `slots`.

Openings == { <<9, 0>>, <<11, 0>>, <<11, 15>>, <<17, 30>> }
Closings == { <<11, 30>>, <<21, 0>>, <<21, 15>>, <<23, 45>> }
Durations == { 15, 30, 45, 60 }

\* lines 88-90, for the configuration (opening, closing, duration)
StartSlots(opening, closing, duration) ==
    /\ loop.pc \in {"idle", "done"}
    /\ TimeLT(opening, closing)
    /\ loop' = [pc |-> "while",
                opening |-> opening,
                closing |-> closing,
                duration |-> duration,
                current |-> opening[1] * 60 + opening[2],
                slots |-> <<>>]
    /\ UNCHANGED <<reservations, ret, issued, cancelled, calls>>

\* lines 92-94: the loop condition holds and the body runs
AppendSlot ==
    /\ loop.pc = "while"
    /\ TimeLT(TimeOf(loop.current), loop.closing)
    /\ Len(loop.slots) < MaxSlots
    /\ loop' = [loop EXCEPT !.slots = Append(@, TimeOf(loop.current)),
                            !.current = @ + loop.duration]
    /\ UNCHANGED <<reservations, ret, issued, cancelled, calls>>

\* lines 92, 96: the loop condition fails and slots is returned
ReturnSlots ==
    /\ loop.pc = "while"
    /\ ~TimeLT(TimeOf(loop.current), loop.closing)
    /\ loop' = [loop EXCEPT !.pc = "done"]
    /\ UNCHANGED <<reservations, ret, issued, cancelled, calls>>

NextSlots ==
    \/ \E opening \in Openings : \E closing \in Closings : \E duration \in Durations :
            StartSlots(opening, closing, duration)
    \/ AppendSlot
    \/ ReturnSlots

SpecSlots == Init /\ [][NextSlots]_vars

----------------------------------------------------------------------------
\* parse_date (src/server.py:53-73) applied to date strings: calendar dates
\* written in each of the formats, and strings that name no date.

\* the calendar dates written: the 1st, 12th, 13th, 29th and 31st of January,
\* February, May and December of 2024 and 2025, where they exist
Days ==
    { d \in { <<y, m, day>> : y \in {2024, 2025}, m \in {1, 2, 5, 12},
                               day \in {1, 12, 13, 29, 31} } :
        ValidYMD(d[1], d[2], d[3]) }

\* the string that the calendar date d is in the format fmt
Written(d, fmt) ==
    LET named(abbr, comma) ==
            [sep |-> " ", a |-> d[2], b |-> d[3], c |-> d[1], abbr |-> abbr, comma |-> comma]
    IN  CASE fmt = "%Y-%m-%d" -> Dt("-", d[1], d[2], d[3])
          [] fmt = "%m/%d/%Y" -> Dt("/", d[2], d[3], d[1])
          [] fmt = "%d/%m/%Y" -> Dt("/", d[3], d[2], d[1])
          [] fmt = "%B %d, %Y" -> named(FALSE, TRUE)
          [] fmt = "%b %d, %Y" -> named(TRUE, TRUE)
          [] fmt = "%B %d %Y" -> named(FALSE, FALSE)
          [] fmt = "%b %d %Y" -> named(TRUE, FALSE)

\* parse_date arguments: the days in every format of the list, "13/13/2025"
\* and "2025-02-30"
ParseArgs ==
    { Written(d, formats[i]) : d \in Days, i \in 1..Len(formats) }
    \cup BadDates \cup { Dt("-", 2025, 2, 30) }

\* the call parse_date(date_str)
ParseDate(date_str) ==
    /\ ret' = [op |-> "parse_date", date_str |-> date_str, result |-> parse_date(date_str)]
    /\ UNCHANGED <<reservations, issued, cancelled, calls, loop>>

NextDate == \E date_str \in ParseArgs : ParseDate(date_str)

SpecDate == Init /\ [][NextDate]_vars

----------------------------------------------------------------------------
\* Vocabulary of the properties.

Range(s) == { s[i] : i \in 1..Len(s) }

\* the sequence number an id carries: int(id[3:])
SeqNum(id) ==
    LET d == SubSeq(id, 4, Len(id))
        val(c) == (CHOOSE i \in 1..10 : Digits[i] = c) - 1
        RECURSIVE num(_)
        num(t) == IF t = <<>> THEN 0 ELSE 10 * num(SubSeq(t, 1, Len(t) - 1)) + val(Last(t))
    IN  num(d)

\* A reservation is Active while it is in the ledger: the records carry no
\* status and cancel_reservation deletes.
ActiveAt(R, table_id, date, time) ==
    { i \in 1..Len(R) :
        R[i].v.table_id = table_id /\ R[i].v.date = date /\ R[i].v.time = time }

\* ids of the tables that seat party_size and are free at (date, time)
FreeTables(R, date, time, party_size) ==
    { TABLES[n].id : n \in { m \in 1..Len(TABLES) :
        /\ TABLES[m].capacity >= party_size
        /\ ActiveAt(R, TABLES[m].id, date, time) = {} } }

Min(S) == CHOOSE x \in S : \A y \in S : x <= y

\* date and time strings for queries: those of the tools' inputs, and
\* "12/15/2025", "16/12/2025" and "19:00"
AllDates == GoodDates \cup BadDates \cup { Dt("/", 12, 15, 2025), Dt("/", 16, 12, 2025) }
AllTimes == GoodTimes \cup BadTimes \cup { Tm(19, 0, TRUE, <<>>, FALSE) }

\* those of them that name a date, and an on-grid time within 11:00-21:00
DateStrings == { d \in AllDates : parse_date(d).ok }
SlotStrings ==
    { t \in AllTimes :
        /\ parse_time(t).ok
        /\ parse_time(t).t[2] \in {0, 30}
        /\ TimeLE(<<11, 0>>, parse_time(t).t)
        /\ TimeLT(parse_time(t).t, <<21, 0>>) }

\* a stored date written as YYYY-MM-DD and a stored time written as HH:MM
IsoDate(date) == Dt("-", date[1], date[2], date[3])
ClockTime(time) == Tm(time[1], time[2], TRUE, <<>>, FALSE)

Cancelled(r) == r.op = "cancel_reservation" /\ r.kind = "cancelled"
Confirmed(r) == r.op = "book_table" /\ r.kind = "confirmed"

----------------------------------------------------------------------------
\* C1: with every tool call executed atomically, the ledger never holds two
\* Active reservations for the same (table id, date, time).
C1_NoDoubleBooking ==
    \A i, j \in 1..Len(reservations) :
        ( /\ reservations[i].v.table_id = reservations[j].v.table_id
          /\ reservations[i].v.date = reservations[j].v.date
          /\ reservations[i].v.time = reservations[j].v.time ) => i = j

\* two reservations share a date and time, on different tables, and a third
\* request for that slot has just been refused
C1_Witness ==
    /\ ret.op = "book_table" /\ ret.kind = "no_tables"
    /\ \E i, j \in 1..Len(reservations) :
        /\ i # j
        /\ reservations[i].v.date = reservations[j].v.date
        /\ reservations[i].v.time = reservations[j].v.time
        /\ reservations[i].v.table_id # reservations[j].v.table_id

----------------------------------------------------------------------------
\* Concurrent callers: who was confirmed, and for what.

Done(p) == calls[p].pc = "done"
ConfirmedCall(p) == Done(p) /\ calls[p].ret.kind = "confirmed"

\* the tables that seat party_size
Qualifying(party_size) ==
    { n \in 1..Len(TABLES) : TABLES[n].capacity >= party_size }

\* the calls made so far all ask for the same date, time and party size,
\* and exactly one table seats that party
SameRequestOneTable ==
    \A p, q \in Callers :
        (calls[p].pc # "idle" /\ calls[q].pc # "idle") =>
            /\ calls[p].args.date = calls[q].args.date
            /\ calls[p].args.time_str = calls[q].args.time_str
            /\ calls[p].args.party_size = calls[q].args.party_size
            /\ Cardinality(Qualifying(calls[p].args.party_size)) = 1

\* C2: of several concurrent book_table calls for the same date, time and
\* party size for which exactly one table qualifies, at most one is confirmed
\* for that table, and the ledger never holds two Active reservations with
\* the same (table id, date, time).
C2_NoDoubleBookingConcurrent ==
    SameRequestOneTable =>
        /\ \A p, q \in Callers :
            ( /\ ConfirmedCall(p) /\ ConfirmedCall(q)
              /\ calls[p].ret.table_id = calls[q].ret.table_id ) => p = q
        /\ \A i, j \in 1..Len(reservations) :
            ( /\ reservations[i].v.table_id = reservations[j].v.table_id
              /\ reservations[i].v.date = reservations[j].v.date
              /\ reservations[i].v.time = reservations[j].v.time ) => i = j

\* C3: the ids that successful bookings return are strictly increasing in
\* sequence number and none is issued twice, cancellations included: a
\* booking never returns an id whose number is not above every id issued
\* before.
C3_IdsIncreaseNeverReused ==
    [][ Confirmed(ret') => \A id \in issued : SeqNum(ret'.id) > SeqNum(id) ]_vars

C5_NeverCancelledTwice ==
    [][ Cancelled(ret') => ret'.id \notin cancelled ]_vars

\* C6: without cancellations, once all concurrent book_table calls have
\* returned, the confirmed calls hold pairwise distinct ids whose sequence
\* numbers leave no gap, and each confirmed reservation is in the ledger
\* under its own id.
C6_ConcurrentIdsDistinctGapFree ==
    (\A p \in Callers : Done(p)) =>
        LET ok == { p \in Callers : ConfirmedCall(p) }
        IN  /\ \A p, q \in ok : calls[p].ret.id = calls[q].ret.id => p = q
            /\ { SeqNum(calls[p].ret.id) : p \in ok } = 1..Cardinality(ok)
            /\ \A p \in ok :
                /\ HasKey(reservations, calls[p].ret.id)
                /\ LET r == Lookup(reservations, calls[p].ret.id)
                   IN  /\ r.id = calls[p].ret.id
                       /\ r.customer_name = calls[p].ret.customer_name
                       /\ r.party_size = calls[p].ret.party_size
                       /\ r.date = calls[p].ret.date
                       /\ r.time = calls[p].ret.time
                       /\ r.table_id = calls[p].ret.table_id

----------------------------------------------------------------------------
C8_CheckAvailabilityExact ==
    /\ \A d \in DateStrings : \A t \in SlotStrings : \A party_size \in 1..8 :
        LET c == check_availability(reservations, d, t, party_size)
        IN  /\ c.kind \in {"available", "none"}
            /\ Range(c.tables) =
                    FreeTables(reservations, parse_date(d).dt, parse_time(t).t, party_size)
            /\ Len(c.tables) = Cardinality(Range(c.tables))
            /\ c.kind = "available" <=> c.tables # <<>>
    /\ (ret.op = "check_availability" /\ ret.kind \in {"available", "none"}) =>
            Range(ret.tables) =
                FreeTables(reservations, ret.date, ret.time, ret.party_size)

\* check_availability has just reported some tables, leaving out a table
\* that is taken at the slot and keeping one that is reserved on another date
C8_Witness ==
    /\ ret.op = "check_availability" /\ ret.kind = "available"
    /\ \E i \in 1..Len(reservations) :
        /\ reservations[i].v.date = ret.date
        /\ reservations[i].v.time = ret.time
        /\ TableById(reservations[i].v.table_id).capacity >= ret.party_size
        /\ reservations[i].v.table_id \notin Range(ret.tables)
    /\ \E i \in 1..Len(reservations) :
        /\ reservations[i].v.date # ret.date
        /\ reservations[i].v.table_id \in Range(ret.tables)

C10_EmptyNameRejected ==
    /\ Confirmed(ret) => ret.customer_name # <<>>
    /\ \A i \in 1..Len(reservations) : reservations[i].v.customer_name # <<>>

----------------------------------------------------------------------------
\* dates compare year first, then month, then day
DateLT(a, b) ==
    \/ a[1] < b[1]
    \/ a[1] = b[1] /\ a[2] < b[2]
    \/ a[1] = b[1] /\ a[2] = b[2] /\ a[3] < b[3]

\* C11: after any sequence of book_table and cancel_reservation calls, the
\* list view_reservations returns holds reservations of the ledger, ordered
\* by (date, time) ascending, and those with equal date and time in
\* ascending id order.
C11_ViewSortedTiesById ==
    (ret.op = "view_reservations" /\ ret.kind = "found") =>
        /\ Range(ret.list) \subseteq Range(Values(reservations))
        /\ \A i, j \in 1..Len(ret.list) :
              i < j =>
                LET x == ret.list[i]
                    y == ret.list[j]
                IN  \/ DateLT(x.date, y.date)
                    \/ x.date = y.date /\ TimeLT(x.time, y.time)
                    \/ /\ x.date = y.date
                       /\ x.time = y.time
                       /\ SeqNum(x.id) < SeqNum(y.id)

----------------------------------------------------------------------------
\* the slots of get_time_slots at which check_availability reports a table
\* for party_size on the date written d, each written as the tool writes it
OpenSlots(R, d, party_size) ==
    LET open ==
            SelectSeq(get_time_slots,
                LAMBDA slot :
                    LET c == check_availability(R, d, ClockTime(slot), party_size)
                    IN  c.kind = "available" /\ c.tables # <<>>)
    IN  [i \in 1..Len(open) |-> StrftimeIMp(open[i])]

\* C12: for the ledger as it is, the date of the last get_available_timeslots
\* call and of every reservation, and every party size in 1..8,
\* get_available_timeslots returns exactly the slots of get_time_slots at
\* which check_availability reports a non-empty table set, in ascending time
\* order; the call just made returned that list.
C12_TimeslotsMatchAvailability ==
    (ret.op = "get_available_timeslots" /\ ret.kind \in {"slots", "full"}) =>
        /\ ret.slots = OpenSlots(reservations, IsoDate(ret.date), ret.party_size)
        /\ \A date \in {ret.date} \cup { reservations[i].v.date : i \in 1..Len(reservations) } :
           \A party_size \in 1..8 :
              LET g == get_available_timeslots(reservations, IsoDate(date), party_size)
              IN  /\ g.kind \in {"slots", "full"}
                  /\ g.slots = OpenSlots(reservations, IsoDate(date), party_size)
                  /\ g.kind = "slots" <=> g.slots # <<>>
                  /\ \A i, j \in 1..Len(g.slots) :
                        i < j => TimeLT(parse_time(g.slots[i]).t, parse_time(g.slots[j]).t)

\* get_available_timeslots has just returned the slots for a party of 8 on a
\* date on which table 6 is taken at one slot: that slot is left out
C12_Witness ==
    /\ ret.op = "get_available_timeslots" /\ ret.kind = "slots"
    /\ ret.party_size = 8
    /\ Len(ret.slots) = Len(get_time_slots) - 1
    /\ \E i \in 1..Len(reservations) :
        /\ reservations[i].v.date = ret.date
        /\ reservations[i].v.table_id = 6
        /\ StrftimeIMp(reservations[i].v.time) \notin Range(ret.slots)

----------------------------------------------------------------------------
\* "11:00", "11am" and "11:00 AM"
OpeningStrings ==
    { Tm(11, 0, TRUE, <<>>, FALSE),
      Tm(11, 0, FALSE, <<"a","m">>, FALSE),
      Tm(11, 0, TRUE, <<"A","M">>, TRUE) }

\* "21:00", "9pm" and "9:00 PM"
ClosingStrings ==
    { Tm(21, 0, TRUE, <<>>, FALSE),
      Tm(9, 0, FALSE, <<"p","m">>, FALSE),
      Tm(9, 0, TRUE, <<"P","M">>, TRUE) }

\* C13: operating hours are the half-open interval [11:00, 21:00): in every
\* ledger state check_availability and book_table accept a request at 11:00
\* and answer a request at 21:00 with the closed message, book_table then
\* leaving the ledger as it is, and no reservation in the ledger has a time
\* before 11:00 or at or after 21:00.
C13_HoursHalfOpen ==
    /\ \A i \in 1..Len(reservations) :
          /\ TimeLE(<<11, 0>>, reservations[i].v.time)
          /\ TimeLT(reservations[i].v.time, <<21, 0>>)
    /\ \A d \in GoodDates : \A party_size \in GoodSizes :
       \A n \in BookNames : \A ct \in Contacts :
          /\ \A t \in OpeningStrings :
                /\ check_availability(reservations, d, t, party_size).kind
                        \in {"available", "none"}
                /\ book_table(reservations, n, party_size, d, t, ct).ret.kind
                        \in {"confirmed", "no_tables"}
          /\ \A t \in ClosingStrings :
                /\ check_availability(reservations, d, t, party_size).kind = "closed"
                /\ LET out == book_table(reservations, n, party_size, d, t, ct)
                   IN  out.ret.kind = "closed" /\ out.reservations = reservations

\* a request at 21:00 has just been refused as closed while the ledger holds
\* a reservation at 11:00
C13_Witness ==
    /\ ret.op = "book_table" /\ ret.kind = "closed"
    /\ \E i \in 1..Len(reservations) : reservations[i].v.time = <<11, 0>>

----------------------------------------------------------------------------
\* the times of day on the quarter hours
TimesOfDay == { <<h, m>> : h \in 0..23, m \in {0, 15, 30, 45} }

\* C14: under every configuration with the opening time before the closing
\* time, a time of day is among the slots get_time_slots returns if and only
\* if is_valid_timeslot and is_within_hours both accept it.
C14_SlotsAgreeWithValidation ==
    loop.pc = "done" =>
        \A t \in TimesOfDay :
            t \in Range(loop.slots)
                <=> (is_valid_timeslot(t) /\ WithinHours(t, loop.opening, loop.closing))

\* C15: under every configuration with the opening time before the closing
\* time and a positive slot duration, the slots get_time_slots has collected
\* are strictly ascending and the loop runs no more often than there are
\* slot starts between the opening and the closing time.
C15_SlotsAscendingLoopBounded ==
    loop.pc \in {"while", "done"} =>
        /\ \A i, j \in 1..Len(loop.slots) :
              i < j => TimeLT(loop.slots[i], loop.slots[j])
        /\ loop.slots # <<>> =>
              (Len(loop.slots) - 1) * loop.duration
                 < (loop.closing[1] * 60 + loop.closing[2])
                     - (loop.opening[1] * 60 + loop.opening[2])

----------------------------------------------------------------------------
\* YYYY-MM-DD, MM/DD/YYYY, DD/MM/YYYY and the long month name, with and
\* without the comma
SupportedFormats == { "%Y-%m-%d", "%m/%d/%Y", "%d/%m/%Y", "%B %d, %Y", "%B %d %Y" }

\* C16: parse_date applied to a calendar date written in a supported format
\* returns that date; in particular a date written DD/MM/YYYY parses back
\* to the same day and month.
C16_ParseDateRoundTrip ==
    ret.op = "parse_date" =>
        \A d \in Days : \A fmt \in SupportedFormats :
            ret.date_str = Written(d, fmt) =>
                ret.result.ok /\ ret.result.dt = d

----------------------------------------------------------------------------
\* book_table has answered with one of its refusals
BookFailed(r) == r.op = "book_table" /\ r.kind # "confirmed"

\* C17: a book_table call that is refused (unparseable date or time, off-grid
\* time, closed, party size, no tables) and a cancel_reservation call for an
\* id that is not a key of the ledger leave the ledger as it was; book_table
\* answers "no tables" only when no table that seats the party is free at
\* the slot, and confirms only when one is.
C17_FailuresChangeNothing ==
    [][ /\ BookFailed(ret') => reservations' = reservations
        /\ (ret'.op = "cancel_reservation" /\ ret'.kind = "not_found") =>
              /\ ~HasKey(reservations, ret'.id)
              /\ reservations' = reservations
        /\ (ret'.op = "book_table" /\ ret'.kind = "no_tables") =>
              FreeTables(reservations, ret'.date, ret'.time, ret'.party_size) = {}
        /\ Confirmed(ret') =>
              FreeTables(reservations, ret'.date, ret'.time, ret'.party_size) # {}
      ]_vars

\* a second party of 8 has just been refused for lack of tables: the ledger
\* holds the one reservation on table 6 and nothing else
C17_Witness ==
    /\ ret.op = "book_table" /\ ret.kind = "no_tables"
    /\ ret.party_size = 8
    /\ Len(reservations) = 1
    /\ reservations[1].v.table_id = 6
    /\ reservations[1].v.date = ret.date /\ reservations[1].v.time = ret.time

----------------------------------------------------------------------------
\* C18: a call of check_availability, view_reservations or
\* get_available_timeslots, whatever its arguments and its answer, leaves
\* the ledger with the same reservations, each with every field, as before.
C18_ReadsChangeNothing ==
    [][ ret'.op \in {"check_availability", "view_reservations", "get_available_timeslots"}
            => reservations' = reservations ]_vars

\* view_reservations has just been called with a date it cannot parse while
\* the ledger holds two reservations
C18_Witness ==
    /\ ret.op = "view_reservations" /\ ret.kind = "error"
    /\ Len(reservations) = 2

----------------------------------------------------------------------------
\* C19: a successful book_table call removes and overwrites no reservation:
\* every record in the ledger before the call is in it afterwards, under the
\* same key and with every field as it was.
C19_BookingKeepsExistingRecords ==
    [][ Confirmed(ret') =>
          \A i \in 1..Len(reservations) :
              /\ HasKey(reservations', reservations[i].k)
              /\ Lookup(reservations', reservations[i].k) = reservations[i].v
      ]_vars

----------------------------------------------------------------------------
\* C20: every reservation in the ledger is stored under the key that is its
\* id field, has a party size in 1..8, a time with minute 0 or 30 from 11:00
\* up to but not including 21:00, and a table_id of a table in TABLES whose
\* capacity is at least the party size.
C20_RecordsWellFormed ==
    \A i \in 1..Len(reservations) :
        LET r == reservations[i].v
        IN  /\ reservations[i].k = r.id
            /\ r.party_size \in 1..8
            /\ r.time[2] \in {0, 30}
            /\ TimeLE(<<11, 0>>, r.time) /\ TimeLT(r.time, <<21, 0>>)
            /\ \E n \in 1..Len(TABLES) :
                  /\ TABLES[n].id = r.table_id
                  /\ TABLES[n].capacity >= r.party_size

\* the ledger holds a party of 8 on table 6 and a party of 2 on table 1
C20_Witness ==
    /\ Len(reservations) = 2
    /\ \E i, j \in 1..2 :
        /\ reservations[i].v.party_size = 8 /\ reservations[i].v.table_id = 6
        /\ reservations[j].v.party_size = 2 /\ reservations[j].v.table_id = 1

====
